---- MODULE Spec2Model ----
(***************************************************************************)
(* Model of athenaapi.py: the generic JSON flattener (flatten_all_json),   *)
(* the four pricing extractors, and the project query of                   *)
(* main_app that fetches, extracts and aggregates per (well, attribute).   *)
(*                                                                         *)
(* Three specifications share the module:                                  *)
(*   SpecFlatten - flatten_all_json run one while-iteration per step;      *)
(*   SpecParse   - one extractor applied to one raw payload;                *)
(*   Spec        - main_app's project query.                               *)
(*                                                                         *)
(* pandas is modelled by what the calls do (pandas 2.x): json_normalize    *)
(* flattens mappings into key paths and leaves lists as cell values,       *)
(* explode puts one row per list element (one NaN row for an empty list),  *)
(* concat of no frames raises ValueError, fillna(0)/sum read NaN as 0.     *)
(* Floats are modelled by integers; a column name is the sequence of the   *)
(* keys on its path (the join with sep is injective as long as no key      *)
(* contains the separator, which is the case for every key drawn here).    *)
(***************************************************************************)
EXTENDS Integers, Sequences, FiniteSets, TLC

VARIABLES
    \* flatten_all_json
    raw_json, df, fpc,
    \* one extractor call
    p_att, p_raw, p_wid, p_out, p_pc,
    \* main_app
    pc, well_ids, wi, ai, raw, pricing_frames, df_pricing_all, df_summary,
    outcome, error_at

fvars == <<raw_json, df, fpc>>
pvars == <<p_att, p_raw, p_wid, p_out, p_pc>>
mvars == <<pc, well_ids, wi, ai, raw, pricing_frames, df_pricing_all, df_summary,
           outcome, error_at>>
vars == <<fvars, pvars, mvars>>

(***************************************************************************)
(* Raw JSON values: a tagged union.                                        *)
(***************************************************************************)
Null == [k |-> "null"]
NaN == [k |-> "nan"]
Num(n) == [k |-> "num", n |-> n]
Str(s) == [k |-> "str", s |-> s]
List(xs) == [k |-> "list", items |-> xs]
Dict(f) == [k |-> "dict", map |-> f]

IsList(v) == v.k = "list"
IsDict(v) == v.k = "dict"
IsNone(v) == v.k = "null"

EmptyMap == [x \in {} |-> Null]

\* The elements of a sequence, as a set.
Range(s) == {s[i] : i \in DOMAIN s}

RECURSIVE SumSeq(_)
SumSeq(s) == IF s = <<>> THEN 0 ELSE Head(s) + SumSeq(Tail(s))

RECURSIVE Flat(_)
\* Concatenation of a sequence of sequences.
Flat(ss) == IF ss = <<>> THEN <<>> ELSE Head(ss) \o Flat(Tail(ss))

(***************************************************************************)
(* pandas: DataFrame, json_normalize, explode.                             *)
(* A frame is [cols: set of column paths, rows: sequence of functions      *)
(* cols -> value]; a cell a record does not give is NaN.                   *)
(***************************************************************************)
EmptyFrame == [cols |-> {}, rows |-> <<>>]

RECURSIVE Leaves(_, _)
\* _normalise_json: the (path, value) pairs a value flattens to; a mapping
\* contributes its fields under path + key, an empty mapping nothing.
Leaves(v, path) ==
    IF IsDict(v)
    THEN UNION {Leaves(v.map[key], Append(path, key)) : key \in DOMAIN v.map}
    ELSE {<<path, v>>}

\* A set of (path, value) pairs as a flat record.
AsRecord(ls) ==
    [p \in {l[1] : l \in ls} |-> (CHOOSE l \in ls : l[1] = p)[2]]

\* _simple_json_normalize of one top-level element: a mapping is flattened,
\* anything else yields the empty record.
NormaliseElement(v) ==
    IF IsDict(v) THEN AsRecord(Leaves(v, <<>>)) ELSE EmptyMap

\* pd.DataFrame(list of flat records): the union of the keys as columns.
DataFrame(recs) ==
    LET cols == UNION {DOMAIN recs[i] : i \in DOMAIN recs}
    IN [cols |-> cols,
        rows |-> [i \in DOMAIN recs |->
                    [c \in cols |-> IF c \in DOMAIN recs[i] THEN recs[i][c] ELSE NaN]]]

\* pd.json_normalize(raw) raises NotImplementedError for a scalar.
json_normalize_raises(rawv) == ~(IsList(rawv) \/ IsDict(rawv))

\* pd.json_normalize(raw, sep) for a mapping or a list.
json_normalize(rawv) ==
    IF IsList(rawv) /\ rawv.items = <<>> THEN EmptyFrame
    ELSE LET data == IF IsDict(rawv) THEN <<rawv>> ELSE rawv.items
         IN DataFrame([i \in DOMAIN data |-> NormaliseElement(data[i])])

\* Mutant of ExplodeRow: an empty list yields no row at all.
ExplodeRowDropEmpty(row, col) ==
    IF IsList(row[col])
    THEN [j \in DOMAIN row[col].items |-> [row EXCEPT ![col] = row[col].items[j]]]
    ELSE <<row>>

\* One row of df.explode(col): one row per element of a list cell, one NaN
\* row for an empty list, the row itself otherwise.
ExplodeRow(row, col) ==
    IF IsList(row[col])
    THEN IF row[col].items = <<>>
         THEN <<[row EXCEPT ![col] = NaN]>>
         ELSE [j \in DOMAIN row[col].items |-> [row EXCEPT ![col] = row[col].items[j]]]
    ELSE <<row>>

\* df.explode(col).reset_index(drop=True)
explode(d, col) ==
    [cols |-> d.cols,
     rows |-> Flat([i \in DOMAIN d.rows |-> ExplodeRow(d.rows[i], col)])]

\* pd.json_normalize(df.to_dict(orient="records"), sep): every row is a
\* mapping column -> cell; a cell that is a mapping is flattened under it.
renormalize(d) ==
    IF d.rows = <<>> THEN EmptyFrame
    ELSE DataFrame([i \in DOMAIN d.rows |->
            AsRecord(UNION {Leaves(d.rows[i][c], c) : c \in d.cols})])

\* Mutant of list_cols: only the first row is scanned for lists.
list_cols_first_row(d) ==
    {c \in d.cols : d.rows # <<>> /\ IsList(d.rows[1][c])}

\* The columns with a list in some row.
list_cols(d) ==
    {c \in d.cols : \E i \in DOMAIN d.rows : IsList(d.rows[i][c])}

\* Body of `for col in list_cols`: explode then re-normalize.
ExplodeStep(d, col) == renormalize(explode(d, col))

RECURSIVE ExplodeAll(_, _)
\* The for loop over list_cols in a given column order; df.explode(col) of
\* a column the frame does not have raises KeyError (ok = FALSE).
ExplodeAll(d, order) ==
    IF order = <<>> THEN [ok |-> TRUE, df |-> d]
    ELSE IF Head(order) \notin d.cols THEN [ok |-> FALSE, df |-> d]
    ELSE ExplodeAll(ExplodeStep(d, Head(order)), Tail(order))

\* The orders in which a set of columns can be listed (df.columns follows
\* the insertion order of the payload's keys, which a mapping here drops).
Orders(S) ==
    {o \in [1..Cardinality(S) -> S] : \A c \in S : \E i \in DOMAIN o : o[i] = c}

(***************************************************************************)
(* Inputs of the flattener: the caller builds a JSON tree of at most       *)
(* MaxNodes nodes over FlatKeys and FlatLeaves, one node at a time, and    *)
(* then calls flatten_all_json on it.  Every such tree is reached.  A      *)
(* top-level list holds mappings or scalars.                               *)
(***************************************************************************)
MaxNodes == 7

FlatKeys == {"a", "b"}
FlatLeaves == {Num(1), List(<<>>), Dict(EmptyMap)}

RECURSIVE Size(_)
\* The number of nodes of a tree.
Size(v) ==
    IF IsList(v) THEN 1 + SumSeq([i \in DOMAIN v.items |-> Size(v.items[i])])
    ELSE IF IsDict(v)
    THEN LET RECURSIVE Over(_)
             Over(ks) == IF ks = {} THEN 0
                         ELSE LET key == CHOOSE x \in ks : TRUE
                              IN Size(v.map[key]) + Over(ks \ {key})
         IN 1 + Over(DOMAIN v.map)
    ELSE 1

RECURSIVE Grown(_)
\* The trees that have one node more than v: a leaf appended to one of its
\* lists or put under a new key of one of its mappings.
Grown(v) ==
    IF IsList(v)
    THEN {List(Append(v.items, leaf)) : leaf \in FlatLeaves}
         \cup UNION {{List([v.items EXCEPT ![i] = e]) : e \in Grown(v.items[i])}
                     : i \in DOMAIN v.items}
    ELSE IF IsDict(v)
    THEN UNION {{Dict((key :> leaf) @@ v.map) : leaf \in FlatLeaves}
                : key \in FlatKeys \ DOMAIN v.map}
         \cup UNION {{Dict([v.map EXCEPT ![key] = e]) : e \in Grown(v.map[key])}
                     : key \in DOMAIN v.map}
    ELSE {}

TopLevelOk(t) == IsList(t) => \A i \in DOMAIN t.items : ~IsList(t.items[i])

(***************************************************************************)
(* flatten_all_json, one while-iteration per step.                         *)
(***************************************************************************)
ParseIdle ==
    /\ p_att = "none" /\ p_raw = Null /\ p_wid = Null /\ p_out = <<>> /\ p_pc = "idle"

MainIdle ==
    /\ pc = "idle" /\ well_ids = <<>> /\ wi = 0 /\ ai = 0 /\ raw = Null
    /\ pricing_frames = <<>> /\ df_pricing_all = <<>> /\ df_summary = <<>>
    /\ outcome = "none" /\ error_at = "none"

InitFlatten ==
    /\ raw_json \in {Null} \cup FlatLeaves
    /\ df = EmptyFrame
    /\ fpc = "input"
    /\ ParseIdle
    /\ MainIdle

\* The caller's payload gets one more node.
GrowInput ==
    /\ fpc = "input"
    /\ Size(raw_json) < MaxNodes
    /\ \E t \in Grown(raw_json) : TopLevelOk(t) /\ raw_json' = t
    /\ UNCHANGED <<df, fpc, pvars, mvars>>

\* Lines 44-47: None gives an empty frame; otherwise json_normalize.
FlattenStart ==
    /\ fpc = "input"
    /\ IF IsNone(raw_json) THEN df' = EmptyFrame /\ fpc' = "done"
       ELSE IF json_normalize_raises(raw_json) THEN df' = df /\ fpc' = "raised"
       ELSE df' = json_normalize(raw_json) /\ fpc' = "loop"
    /\ UNCHANGED <<raw_json, pvars, mvars>>

\* Lines 50-60: one iteration of `while True`.
FlattenIter ==
    /\ fpc = "loop"
    /\ LET cols == list_cols(df)
       IN IF cols = {} THEN df' = df /\ fpc' = "done"
          ELSE \E order \in Orders(cols) :
                 LET r == ExplodeAll(df, order)
                 IN /\ df' = r.df
                    /\ fpc' = IF r.ok THEN "loop" ELSE "raised"
    /\ UNCHANGED <<raw_json, pvars, mvars>>

NextFlatten == GrowInput \/ FlattenStart \/ FlattenIter

SpecFlatten == InitFlatten /\ [][NextFlatten]_vars /\ WF_vars(FlattenIter)

(***************************************************************************)
(* Properties of flatten_all_json (checked under SpecFlatten).             *)
(***************************************************************************)
NoListCell(d) ==
    \A i \in DOMAIN d.rows : \A c \in d.cols : ~IsList(d.rows[i][c])

RECURSIVE ProdOver(_, _, _)
\* The product of F over the values of a mapping's keys ks.
ProdOver(F(_), m, ks) ==
    IF ks = {} THEN 1
    ELSE LET key == CHOOSE x \in ks : TRUE
         IN F(m[key]) * ProdOver(F, m, ks \ {key})

RECURSIVE ListDepth(_)
\* The deepest nesting of lists on a path of the tree.
ListDepth(v) ==
    LET Max(S) == IF S = {} THEN 0 ELSE CHOOSE x \in S : \A y \in S : y <= x
    IN IF IsList(v) THEN 1 + Max({ListDepth(v.items[i]) : i \in DOMAIN v.items})
       ELSE IF IsDict(v) THEN Max({ListDepth(v.map[key]) : key \in DOMAIN v.map})
       ELSE 0

RECURSIVE ClaimedRows(_)
\* The row count as the product of element counts: a list stands for as
\* many records as its elements do together (none when it is empty), the
\* fields of a mapping multiply.
ClaimedRows(v) ==
    IF IsList(v) THEN SumSeq([i \in DOMAIN v.items |-> ClaimedRows(v.items[i])])
    ELSE IF IsDict(v) THEN ProdOver(ClaimedRows, v.map, DOMAIN v.map)
    ELSE 1

RECURSIVE KeptRows(_)
\* As ClaimedRows, but an empty list stands for one record.
KeptRows(v) ==
    IF IsList(v)
    THEN IF v.items = <<>> THEN 1
         ELSE SumSeq([i \in DOMAIN v.items |-> KeptRows(v.items[i])])
    ELSE IF IsDict(v) THEN ProdOver(KeptRows, v.map, DOMAIN v.map)
    ELSE 1

\* The deepest list nesting among the cells of a frame: the loop's variant.
FrameDepth(d) ==
    LET S == {ListDepth(d.rows[i][c]) : i \in DOMAIN d.rows, c \in d.cols}
    IN IF S = {} THEN 0 ELSE CHOOSE x \in S : \A y \in S : y <= x

\* C5: flatten_all_json terminates for every tree, and the frame it returns
\* holds no list in any cell: every iteration of the while loop either
\* leaves the loop, which it does exactly when no column holds a list in
\* any row, or strictly lowers the list nesting of the frame's cells (a
\* natural number, so the loop cannot go on for ever) without raising.
C5_FlattenTerminatesListFree ==
    [][FlattenIter =>
         IF NoListCell(df)
         THEN fpc' = "done" /\ df' = df
         ELSE fpc' = "loop" /\ FrameDepth(df') < FrameDepth(df)]_vars

\* C5 witness: the loop has ended on a tree with a list nested in a list's
\* element, after exploding to several rows.
C5_Witness ==
    /\ fpc = "done"
    /\ ListDepth(raw_json) >= 2
    /\ Len(df.rows) >= 2

\* C6 (as stated): for a raw mapping the number of rows is the product of
\* the element counts of its lists, empty lists included.
C6_RowsAreProductOfCounts ==
    (fpc = "done" /\ IsDict(raw_json)) => Len(df.rows) = ClaimedRows(raw_json)

\* C6 (amended): for a raw mapping the number of rows is the product of the
\* element counts of its lists, where an empty list counts as one element;
\* it is 1 when the tree has no list.
C6_RowsAreProductOfKeptCounts ==
    (fpc = "done" /\ IsDict(raw_json)) =>
        /\ Len(df.rows) = KeptRows(raw_json)
        /\ ListDepth(raw_json) = 0 => Len(df.rows) = 1

\* C6 witness: sibling lists of two elements each have multiplied.
C6_Witness ==
    /\ fpc = "done"
    /\ IsDict(raw_json)
    /\ DOMAIN raw_json.map = {"a", "b"}
    /\ IsList(raw_json.map["a"]) /\ Len(raw_json.map["a"].items) = 2
    /\ IsList(raw_json.map["b"]) /\ Len(raw_json.map["b"].items) = 2
    /\ Len(df.rows) = 4

(***************************************************************************)
(* The pricing extractors.                                                 *)
(* An extractor call yields [raised, rows]: raised is TRUE when the call   *)
(* ends in an exception (AttributeError from .get on a value that is no    *)
(* mapping, TypeError from iterating a value that is not iterable), rows   *)
(* are the records of the frame it returns otherwise.                      *)
(***************************************************************************)
\* float(x) of the strings drawn here; float() of any other string raises.
StrFloat == ("10" :> 10) @@ ("2" :> 2) @@ ("0" :> 0)

\* str(well_id) of the numbers drawn here (numbers are drawn as integers;
\* the text of a float id differs by its ".0" only).
NumStr == (1 :> "1") @@ (2 :> "2")

\* str(x)
str(v) == IF v.k = "num" THEN NumStr[v.n] ELSE v.s

\* _f: float(x), None for None and for whatever float() rejects.
_f(x) ==
    IF x.k = "num" THEN x
    ELSE IF x.k = "str" /\ x.s \in DOMAIN StrFloat THEN Num(StrFloat[x.s])
    ELSE Null

\* d.get(key) of a mapping.
get(d, key) == IF key \in DOMAIN d.map THEN d.map[key] ELSE Null

\* d.get(key, default) of a mapping.
get_default(d, key, default) == IF key \in DOMAIN d.map THEN d.map[key] ELSE default

\* bool(x): None, 0, "", [] and {} are false.
Truthy(v) ==
    CASE v.k = "null" -> FALSE
      [] v.k = "num" -> v.n # 0
      [] v.k = "str" -> v.s # ""
      [] v.k = "list" -> v.items # <<>>
      [] v.k = "dict" -> DOMAIN v.map # {}
      [] OTHER -> TRUE

\* `for x in v`: the elements of a list; the keys of a mapping and the
\* characters of a string (strings, one at least unless empty: here one
\* stands for them all); None and numbers are not iterable (ok = FALSE).
Iterate(v) ==
    CASE v.k = "list" -> [ok |-> TRUE, items |-> v.items]
      [] v.k = "dict" -> [ok |-> TRUE,
                          items |-> IF DOMAIN v.map = {} THEN <<>>
                                    ELSE <<Str(CHOOSE key \in DOMAIN v.map : TRUE)>>]
      [] v.k = "str" -> [ok |-> TRUE, items |-> IF v.s = "" THEN <<>> ELSE <<v>>]
      [] OTHER -> [ok |-> FALSE, items |-> <<>>]

Raised == [raised |-> TRUE, rows |-> <<>>]
Returned(rows) == [raised |-> FALSE, rows |-> rows]

\* The rows appended over the iterations of a loop; an iteration that
\* raises ends the call.
Collect(parts) ==
    IF \E i \in DOMAIN parts : parts[i].raised THEN Raised
    ELSE Returned(Flat([i \in DOMAIN parts |-> parts[i].rows]))

\* Mutant of AsList: a value that is no list is taken as a list of itself.
AsListWrapped(rawv) == IF IsList(rawv) THEN rawv.items ELSE <<rawv>>

\* `raw if isinstance(raw, list) else []`
AsList(rawv) == IF IsList(rawv) THEN rawv.items ELSE <<>>

\* The (mu or {}).get("label") of the cartage and service extractors.
unit_label(mu) ==
    IF ~Truthy(mu) THEN [raised |-> FALSE, v |-> Null]
    ELSE IF IsDict(mu) THEN [raised |-> FALSE, v |-> get(mu, "label")]
    ELSE [raised |-> TRUE, v |-> Null]

\* Lines 89-107.
ProppantRow(p, design_idx, project_number, well_id) ==
    [project_number |-> project_number,
     well_id |-> str(well_id),
     source_attribute |-> "completionDesign",
     line_type |-> "proppant",
     design_idx |-> Num(design_idx),
     orden |-> Null,
     catalog_external |-> get(p, "proppantSizeCatalogExternal"),
     item_description |-> get(p, "proppantCommercialName"),
     commercial_name |-> get(p, "proppantCommercialName"),
     concentration |-> Null,
     unit |-> get(p, "unit"),
     unit_price |-> _f(get(p, "unitPrice")),
     discount_pct |-> _f(get(p, "discountPercentage")),
     discounted_unit_price |-> _f(get(p, "discountedUnitPrice")),
     quoted_quantity |-> _f(get(p, "quotedQuantity"))]

\* Mutant of ChemicalRow: discount_pct is read from discountPercentage.
ChemicalRowDiscountPercentage(ch, grp_idx, project_number, well_id) ==
    [project_number |-> project_number,
     well_id |-> str(well_id),
     source_attribute |-> "fracChemicals",
     line_type |-> "chemical",
     design_idx |-> Num(grp_idx),
     orden |-> Null,
     catalog_external |-> get(ch, "chemicalTypeCatalogExternal"),
     item_description |-> get(ch, "commercialName"),
     commercial_name |-> get(ch, "commercialName"),
     concentration |-> get(ch, "concentration"),
     unit |-> get(ch, "unit"),
     unit_price |-> _f(get(ch, "unitPrice")),
     discount_pct |-> _f(get(ch, "discountPercentage")),
     discounted_unit_price |-> _f(get(ch, "discountedUnitPrice")),
     quoted_quantity |-> _f(get(ch, "quotedQuantity"))]

\* Lines 121-139.
ChemicalRow(ch, grp_idx, project_number, well_id) ==
    [project_number |-> project_number,
     well_id |-> str(well_id),
     source_attribute |-> "fracChemicals",
     line_type |-> "chemical",
     design_idx |-> Num(grp_idx),
     orden |-> Null,
     catalog_external |-> get(ch, "chemicalTypeCatalogExternal"),
     item_description |-> get(ch, "commercialName"),
     commercial_name |-> get(ch, "commercialName"),
     concentration |-> get(ch, "concentration"),
     unit |-> get(ch, "unit"),
     unit_price |-> _f(get(ch, "unitPrice")),
     discount_pct |-> _f(get(ch, "discount")),
     discounted_unit_price |-> _f(get(ch, "discountedUnitPrice")),
     quoted_quantity |-> _f(get(ch, "quotedQuantity"))]

\* Lines 152-170.
CartageRow(it, unit, project_number, well_id) ==
    [project_number |-> project_number,
     well_id |-> str(well_id),
     source_attribute |-> "cartageCharges",
     line_type |-> "cartage",
     design_idx |-> Null,
     orden |-> get(it, "orden"),
     catalog_external |-> get(it, "cartageChargeCatalogExternal"),
     item_description |-> get(it, "itemDescription"),
     commercial_name |-> Null,
     concentration |-> Null,
     unit |-> unit,
     unit_price |-> _f(get(it, "unitPrice")),
     discount_pct |-> _f(get(it, "discountPercentage")),
     discounted_unit_price |-> _f(get(it, "discountedUnitPrice")),
     quoted_quantity |-> _f(get(it, "quotedQuantity"))]

\* Lines 183-201.
ServiceRow(it, unit, project_number, well_id) ==
    [project_number |-> project_number,
     well_id |-> str(well_id),
     source_attribute |-> "serviceCharges",
     line_type |-> "service",
     design_idx |-> Null,
     orden |-> get(it, "orden"),
     catalog_external |-> get(it, "serviceChargeCatalogExternal"),
     item_description |-> get(it, "itemDescription"),
     commercial_name |-> Null,
     concentration |-> Null,
     unit |-> unit,
     unit_price |-> _f(get(it, "unitPrice")),
     discount_pct |-> _f(get(it, "discountPercentage")),
     discounted_unit_price |-> _f(get(it, "discountedUnitPrice")),
     quoted_quantity |-> _f(get(it, "quotedQuantity"))]

\* Lines 81-108.
parse_completion_design(rawv, project_number, well_id) ==
    LET designs == AsList(rawv)
        OneDesign(i) ==
            LET d == designs[i]
                proppants == IF IsDict(d)
                             THEN get_default(d, "proppantsTypeMesh", List(<<>>))
                             ELSE List(<<>>)
                ps == Iterate(proppants)
            IN IF ~Truthy(proppants) THEN Returned(<<>>)
               ELSE IF ~ps.ok \/ \E j \in DOMAIN ps.items : ~IsDict(ps.items[j])
               THEN Raised
               ELSE Returned([j \in DOMAIN ps.items |->
                        ProppantRow(ps.items[j], i - 1, project_number, well_id)])
    IN Collect([i \in DOMAIN designs |-> OneDesign(i)])

\* Lines 116-140.
parse_frac_chemicals(rawv, project_number, well_id) ==
    LET groups == AsList(rawv)
        OneGroup(i) ==
            LET grp == groups[i]
                chem_types == IF IsDict(grp)
                              THEN get_default(grp, "chemTypes", List(<<>>))
                              ELSE List(<<>>)
                cs == Iterate(chem_types)
            IN IF ~cs.ok \/ \E j \in DOMAIN cs.items : ~IsDict(cs.items[j])
               THEN Raised
               ELSE Returned([j \in DOMAIN cs.items |->
                        ChemicalRow(cs.items[j], i - 1, project_number, well_id)])
    IN Collect([i \in DOMAIN groups |-> OneGroup(i)])

\* Lines 148-171.
parse_cartage_charges(rawv, project_number, well_id) ==
    LET items == AsList(rawv)
        OneItem(i) ==
            LET it == items[i]
                mu == IF IsDict(it) THEN get(it, "measurementUnits") ELSE Dict(EmptyMap)
                unit == unit_label(mu)
            IN IF ~IsDict(it) \/ unit.raised THEN Raised
               ELSE Returned(<<CartageRow(it, unit.v, project_number, well_id)>>)
    IN Collect([i \in DOMAIN items |-> OneItem(i)])

\* Lines 179-202.
parse_service_charges(rawv, project_number, well_id) ==
    LET items == AsList(rawv)
        OneItem(i) ==
            LET it == items[i]
                mu == IF IsDict(it) THEN get(it, "measurementUnits") ELSE Dict(EmptyMap)
                unit == unit_label(mu)
            IN IF ~IsDict(it) \/ unit.raised THEN Raised
               ELSE Returned(<<ServiceRow(it, unit.v, project_number, well_id)>>)
    IN Collect([i \in DOMAIN items |-> OneItem(i)])

\* The four pricing attributes, in the order of main_app's list.
PricingAttributes == <<"completionDesign", "fracChemicals", "cartageCharges", "serviceCharges">>

\* Lines 298-305: the extractor of an attribute.
parse(att, rawv, project_number, well_id) ==
    CASE att = "completionDesign" -> parse_completion_design(rawv, project_number, well_id)
      [] att = "fracChemicals" -> parse_frac_chemicals(rawv, project_number, well_id)
      [] att = "cartageCharges" -> parse_cartage_charges(rawv, project_number, well_id)
      [] att = "serviceCharges" -> parse_service_charges(rawv, project_number, well_id)

(***************************************************************************)
(* One extractor call on one payload.  The caller builds a payload of at   *)
(* most MaxRawNodes nodes, a node at a time: list elements are drawn from  *)
(* ElementLeaves, the value put under a key from KeyLeaves[key].           *)
(***************************************************************************)
MaxRawNodes == 6

ElementLeaves == {Dict(EmptyMap), Null, Str("x")}

KeyLeaves ==
    [proppantsTypeMesh |-> {List(<<>>), Null, Str("x")},
     chemTypes |-> {List(<<>>), Null},
     measurementUnits |-> {Dict(EmptyMap), Null, Str("x")},
     label |-> {Str("GAL")},
     discount |-> {Str("10")},
     discountPercentage |-> {Num(2)},
     unitPrice |-> {Str("abc")},
     note |-> {Num(1)}]

RawSeeds == {Null, Num(1), Str("x"), Dict(EmptyMap), List(<<>>)}

WellIdValues == {Num(1), Str("W1")}

RECURSIVE GrownRaw(_)
\* The payloads that have one node more than v.
GrownRaw(v) ==
    IF IsList(v)
    THEN {List(Append(v.items, leaf)) : leaf \in ElementLeaves}
         \cup UNION {{List([v.items EXCEPT ![i] = e]) : e \in GrownRaw(v.items[i])}
                     : i \in DOMAIN v.items}
    ELSE IF IsDict(v)
    THEN UNION {{Dict((key :> leaf) @@ v.map) : leaf \in KeyLeaves[key]}
                : key \in DOMAIN KeyLeaves \ DOMAIN v.map}
         \cup UNION {{Dict([v.map EXCEPT ![key] = e]) : e \in GrownRaw(v.map[key])}
                     : key \in DOMAIN v.map}
    ELSE {}

FlattenIdle == raw_json = Null /\ df = EmptyFrame /\ fpc = "idle"

InitParse ==
    /\ p_raw \in RawSeeds
    /\ p_att = "none"
    /\ p_wid = Null
    /\ p_out = <<>>
    /\ p_pc = "input"
    /\ FlattenIdle
    /\ MainIdle

\* The caller's payload gets one more node.
GrowRaw ==
    /\ p_pc = "input"
    /\ Size(p_raw) < MaxRawNodes
    /\ p_raw' \in GrownRaw(p_raw)
    /\ UNCHANGED <<fvars, p_att, p_wid, p_out, p_pc, mvars>>

\* One of the four extractors is called on the payload.
ParseCall ==
    /\ p_pc = "input"
    /\ \E att \in Range(PricingAttributes), wid \in WellIdValues :
          /\ p_att' = att
          /\ p_wid' = wid
          /\ p_out' = parse(att, p_raw, "P1", wid)
    /\ p_pc' = "done"
    /\ UNCHANGED <<fvars, p_raw, mvars>>

NextParse == GrowRaw \/ ParseCall

SpecParse == InitParse /\ [][NextParse]_vars

(***************************************************************************)
(* Properties of the extractors (checked under SpecParse).                 *)
(***************************************************************************)
\* The keys an extractor reads, of a group or of an element.
ExpectedKeys(att) ==
    CASE att = "completionDesign" ->
           {"proppantsTypeMesh", "proppantSizeCatalogExternal", "proppantCommercialName",
            "unit", "unitPrice", "discountPercentage", "discountedUnitPrice", "quotedQuantity"}
      [] att = "fracChemicals" ->
           {"chemTypes", "chemicalTypeCatalogExternal", "commercialName", "concentration",
            "unit", "unitPrice", "discount", "discountedUnitPrice", "quotedQuantity"}
      [] att = "cartageCharges" ->
           {"measurementUnits", "orden", "cartageChargeCatalogExternal", "itemDescription",
            "unitPrice", "discountPercentage", "discountedUnitPrice", "quotedQuantity"}
      [] att = "serviceCharges" ->
           {"measurementUnits", "orden", "serviceChargeCatalogExternal", "itemDescription",
            "unitPrice", "discountPercentage", "discountedUnitPrice", "quotedQuantity"}

\* The line_type each extractor tags its rows with.
LineTypeOf(att) ==
    CASE att = "completionDesign" -> "proppant"
      [] att = "fracChemicals" -> "chemical"
      [] att = "cartageCharges" -> "cartage"
      [] att = "serviceCharges" -> "service"

\* The key of the nested list of a grouped source.
NestedKey(att) ==
    IF att = "completionDesign" THEN "proppantsTypeMesh" ELSE "chemTypes"

\* A list of mappings none of which has a key the extractor reads.
NoExpectedKey(att, rawv) ==
    /\ IsList(rawv)
    /\ \A i \in DOMAIN rawv.items :
          /\ IsDict(rawv.items[i])
          /\ DOMAIN rawv.items[i].map \cap ExpectedKeys(att) = {}

\* Only the identifier and provenance fields of a line item are populated.
OnlyProvenance(row, att, wid) ==
    /\ row.project_number = "P1"
    /\ row.well_id = str(wid)
    /\ row.source_attribute = att
    /\ row.line_type = LineTypeOf(att)
    /\ \A v \in {row.design_idx, row.orden, row.catalog_external, row.item_description,
                 row.commercial_name, row.concentration, row.unit, row.unit_price,
                 row.discount_pct, row.discounted_unit_price, row.quoted_quantity} :
          v = Null

\* C4: every extractor returns an empty sequence for a raw value that is no
\* list (None, a scalar, a mapping), and for a list of mappings with none of
\* the expected keys it returns, without raising, line items in which only
\* project_number, well_id, source_attribute and line_type are populated
\* (possibly none at all).
C4_NullSafeExtractors ==
    p_pc = "done" =>
        /\ ~IsList(p_raw) => p_out = Returned(<<>>)
        /\ NoExpectedKey(p_att, p_raw) =>
              /\ ~p_out.raised
              /\ \A i \in DOMAIN p_out.rows : OnlyProvenance(p_out.rows[i], p_att, p_wid)

\* C4 witness: the cartage extractor has returned two provenance-only line
\* items for two mappings with keys it does not read.
C4_Witness ==
    /\ p_pc = "done"
    /\ p_att = "cartageCharges"
    /\ NoExpectedKey(p_att, p_raw)
    /\ Len(p_raw.items) = 2
    /\ \A i \in DOMAIN p_raw.items : DOMAIN p_raw.items[i].map # {}
    /\ Len(p_out.rows) = 2

\* The elements the rows of a returned frame come from, in payload order:
\* the top-level elements (cartage, service) or the elements of each
\* group's nested list (completion design, frac chemicals).
SourceItems(att, rawv) ==
    IF ~IsList(rawv) THEN <<>>
    ELSE IF att \in {"cartageCharges", "serviceCharges"} THEN rawv.items
    ELSE Flat([i \in DOMAIN rawv.items |->
            LET g == rawv.items[i]
            IN IF IsDict(g) /\ NestedKey(att) \in DOMAIN g.map /\ IsList(g.map[NestedKey(att)])
               THEN g.map[NestedKey(att)].items
               ELSE <<>>])

\* The discount_pct expected of an element when read from `key`: the payloads
\* drawn give "10" under discount and 2 under discountPercentage.
DiscountRead(elem, key) ==
    IF key \notin DOMAIN elem.map THEN Null
    ELSE IF key = "discount" THEN Num(10)
    ELSE Num(2)

\* C10: the frac-chemicals extractor reads discount_pct from `discount` and
\* ignores `discountPercentage`; the other three read `discountPercentage`
\* and ignore `discount`; a chemical with discount "10" gets 10.0.
C10_DiscountKeyPerSource ==
    (p_pc = "done" /\ ~p_out.raised) =>
        LET src == SourceItems(p_att, p_raw)
        IN /\ Len(p_out.rows) = Len(src)
           /\ \A i \in DOMAIN p_out.rows :
                 p_out.rows[i].discount_pct =
                    DiscountRead(src[i], IF p_att = "fracChemicals"
                                         THEN "discount" ELSE "discountPercentage")

\* C10 witness: a chemical carrying both keys got its discount_pct from
\* `discount`.
C10_Witness ==
    /\ p_pc = "done"
    /\ p_att = "fracChemicals"
    /\ ~p_out.raised
    /\ Len(p_out.rows) = 1
    /\ {"discount", "discountPercentage"} \subseteq DOMAIN SourceItems(p_att, p_raw)[1].map
    /\ p_out.rows[1].discount_pct = Num(10)

(***************************************************************************)
(* main_app: the project query.                                            *)
(* One step per call of the fetch collaborator (get_token, get_details);   *)
(* a step runs the code up to the next call, the aggregation after the     *)
(* last (well, attribute) pair included.  outcome is what the page shows:  *)
(* "table" (line items and summary), "nodata" (st.info, no pricing line    *)
(* items), "nowells" (st.info, no wells) or "error" (st.error); error_at    *)
(* names the call the exception came from.                                 *)
(***************************************************************************)
MaxWells == 2
MaxItems == 2

ProjectNumber == "P1"

\* Line 274-280.
Attributes ==
    <<"generalWellInformation", "completionDesign", "fracChemicals",
      "cartageCharges", "serviceCharges">>

\* The sequences over S of length at most n.
SeqsUpTo(S, n) == UNION {[1..len -> S] : len \in 0..n}

\* The project payloads drawn: an error text, a project without wells, and
\* projects with up to MaxWells entries under wellIDs.
WellEntries ==
    {Dict("id" :> Num(1)), Dict("id" :> Str("W2")), Dict("id" :> Null),
     Dict("name" :> Str("x"))}

ProjectPayloads ==
    {Str("error"), Dict("name" :> Str("x"))}
    \cup {Dict("wellIDs" :> List(ws)) : ws \in SeqsUpTo(WellEntries, MaxWells)}

\* The priced elements drawn: priced and quantified; no list price and a
\* string for the discounted price; priced with no quantity.
ItemMenu ==
    {Dict([unitPrice |-> Num(10), discountedUnitPrice |-> Num(2), quotedQuantity |-> Num(5)]),
     Dict([unitPrice |-> Null, discountedUnitPrice |-> Str("2"), quotedQuantity |-> Num(3)]),
     Dict([unitPrice |-> Num(10), discountedUnitPrice |-> Num(2)])}

\* A payload of the shape an attribute's resource returns for the elements.
Wrap(att, items) ==
    IF att \in {"completionDesign", "fracChemicals"}
    THEN List(<<Dict(NestedKey(att) :> List(items))>>)
    ELSE List(items)

\* Payloads that are not of the expected shape: no list, a list whose
\* elements are no mappings, a group whose nested field is no list of
\* mappings.
Malformed(att) ==
    {Null, Str("error"), Dict("error" :> Str("x")), List(<<Null>>), List(<<Str("x")>>)}
    \cup (IF att \in {"completionDesign", "fracChemicals"}
          THEN {List(<<Dict(NestedKey(att) :> Str("x"))>>),
                List(<<Dict(NestedKey(att) :> Null)>>),
                List(<<Dict(NestedKey(att) :> List(<<Null>>))>>)}
          ELSE {})

\* What get_details may return for an attribute.
Payloads(att) ==
    IF att = "generalWellInformation"
    THEN {Dict("name" :> Str("x")), List(<<>>), Null, Str("error")}
    ELSE {Wrap(att, items) : items \in SeqsUpTo(ItemMenu, MaxItems)}
         \cup {List(<<>>), List(<<Dict(EmptyMap)>>)}
         \cup Malformed(att)

\* df.empty
Empty(d) == d.rows = <<>> \/ d.cols = {}

RECURSIVE unique(_)
\* Series.unique(): first occurrences, in order.
unique(xs) ==
    IF xs = <<>> THEN <<>>
    ELSE LET init == unique(SubSeq(xs, 1, Len(xs) - 1))
             last == xs[Len(xs)]
         IN IF last \in Range(init) THEN init ELSE Append(init, last)

\* Series.dropna()
dropna(xs) == SelectSeq(xs, LAMBDA v : v # Null /\ v # NaN)

\* Lines 258-265 and 285-286: the wells of a project payload.
\* raised: json_normalize rejects the payload; found: df_wells is not empty
\* and has an id column; ids: df_wells["id"].dropna().unique().
Wells(raw_project) ==
    IF json_normalize_raises(raw_project)
    THEN [raised |-> TRUE, found |-> FALSE, ids |-> <<>>]
    ELSE LET df_project == json_normalize(raw_project)
             df_exploded ==
                 explode([cols |-> {<<"wellIDs">>},
                          rows |-> [i \in DOMAIN df_project.rows |->
                                      [c \in {<<"wellIDs">>} |-> df_project.rows[i][c]]]],
                         <<"wellIDs">>)
             df_wells ==
                 IF <<"wellIDs">> \in df_project.cols
                 THEN DataFrame([i \in DOMAIN df_exploded.rows |->
                         NormaliseElement(df_exploded.rows[i][<<"wellIDs">>])])
                 ELSE EmptyFrame
         IN IF ~Empty(df_wells) /\ <<"id">> \in df_wells.cols
            THEN [raised |-> FALSE, found |-> TRUE,
                  ids |-> unique(dropna([i \in DOMAIN df_wells.rows |->
                                            df_wells.rows[i][<<"id">>]]))]
            ELSE [raised |-> FALSE, found |-> FALSE, ids |-> <<>>]

\* Line 293: flatten_all_json(raw) raises when json_normalize rejects raw.
flatten_raises(rawv) == ~IsNone(rawv) /\ json_normalize_raises(rawv)

\* Mutant of fillna0: a missing value is left missing.
fillna_nothing(v) == v

\* Series.fillna(0)
fillna0(v) == IF v = Null \/ v = NaN THEN Num(0) ELSE v

\* The product of two cells; NaN when one is missing.
mul(a, b) == IF a.k = "num" /\ b.k = "num" THEN Num(a.n * b.n) ELSE NaN

\* Lines 315-322: the extended totals of a line item.
extend(row) ==
    [extended_discounted |-> mul(fillna0(row.discounted_unit_price), fillna0(row.quoted_quantity)),
     extended_list |-> mul(fillna0(row.unit_price), fillna0(row.quoted_quantity))]
    @@ row

\* Series.sum(): the missing values are skipped.
sum(cells) == SumSeq([i \in DOMAIN cells |-> IF cells[i].k = "num" THEN cells[i].n ELSE 0])

\* The order of the well ids and line types drawn, as groupby sorts them.
WellIdRank == ("1" :> 1) @@ ("W2" :> 2)
LineTypeRank == ("cartage" :> 1) @@ ("chemical" :> 2) @@ ("proppant" :> 3) @@ ("service" :> 4)

KeyBefore(a, b) ==
    \/ WellIdRank[a[1]] < WellIdRank[b[1]]
    \/ WellIdRank[a[1]] = WellIdRank[b[1]] /\ LineTypeRank[a[2]] < LineTypeRank[b[2]]

RECURSIVE SortKeys(_)
SortKeys(S) ==
    IF S = {} THEN <<>>
    ELSE LET first == CHOOSE a \in S : \A b \in S \ {a} : KeyBefore(a, b)
         IN <<first>> \o SortKeys(S \ {first})

\* Mutant of GroupKey: the rows are grouped by well only.
GroupKeyWellOnly(row) == <<row.well_id, "cartage">>

\* The groupby key of a line item.
GroupKey(row) == <<row.well_id, row.line_type>>

\* Lines 328-337: groupby(["well_id", "line_type"]).agg(...)
summarize(rows) ==
    LET keys == SortKeys({GroupKey(rows[i]) : i \in DOMAIN rows})
        Group(key) == SelectSeq(rows, LAMBDA r : GroupKey(r) = key)
        Col(g, Field(_)) == [i \in DOMAIN g |-> Field(g[i])]
    IN [n \in DOMAIN keys |->
          LET g == Group(keys[n])
          IN [well_id |-> keys[n][1],
              line_type |-> keys[n][2],
              lines |-> Len(g),
              total_qty |-> sum(Col(g, LAMBDA r : r.quoted_quantity)),
              total_discounted |-> sum(Col(g, LAMBDA r : r.extended_discounted)),
              total_list |-> sum(Col(g, LAMBDA r : r.extended_list))]]

\* Mutant of concat: the frames are put together last first.
concat_reversed(frames) ==
    Flat([i \in DOMAIN frames |-> frames[Len(frames) + 1 - i]])

\* pd.concat(frames, ignore_index=True) of at least one frame.
concat(frames) == Flat(frames)

\* Lines 307-340: the code after the loop over the wells.
Aggregate(frames) ==
    LET kept == SelectSeq(frames, LAMBDA x : x # <<>>)
    IN IF frames = <<>>
       THEN [outcome |-> "nodata", error_at |-> "none", all |-> <<>>, summary |-> <<>>]
       ELSE IF kept = <<>>
       THEN [outcome |-> "error", error_at |-> "concat", all |-> <<>>, summary |-> <<>>]
       ELSE LET all == [i \in DOMAIN concat(kept) |-> extend(concat(kept)[i])]
            IN [outcome |-> "table", error_at |-> "none", all |-> all,
                summary |-> summarize(all)]

\* The rows the extractors have returned so far.
TotalRows(frames) == Len(Flat(frames))

Init ==
    /\ pc = "start"
    /\ well_ids = <<>>
    /\ wi = 0
    /\ ai = 0
    /\ raw = Null
    /\ pricing_frames = <<>>
    /\ df_pricing_all = <<>>
    /\ df_summary = <<>>
    /\ outcome = "none"
    /\ error_at = "none"
    /\ FlattenIdle
    /\ ParseIdle

\* Lines 344-345: an exception ends the query with st.error.
Abort(at) ==
    /\ pc' = "done"
    /\ outcome' = "error"
    /\ error_at' = at

\* The query ends with the result of the code after the loop.
Finish(frames) ==
    LET agg == Aggregate(frames)
    IN /\ pc' = "done"
       /\ outcome' = agg.outcome
       /\ error_at' = agg.error_at
       /\ df_pricing_all' = agg.all
       /\ df_summary' = agg.summary

\* Line 250: get_token raises.
TokenRaises ==
    /\ pc = "start"
    /\ Abort("token")
    /\ UNCHANGED <<well_ids, wi, ai, raw, pricing_frames, df_pricing_all, df_summary>>
    /\ UNCHANGED <<fvars, pvars>>

\* Line 254: get_details raises for the project.
ProjectRaises ==
    /\ pc = "start"
    /\ Abort("project")
    /\ UNCHANGED <<well_ids, wi, ai, raw, pricing_frames, df_pricing_all, df_summary>>
    /\ UNCHANGED <<fvars, pvars>>

\* Lines 254-286: the project is fetched and its wells are listed; without
\* wells the query ends here (lines 307-342).
ProjectFetched ==
    /\ pc = "start"
    /\ \E raw_project \in ProjectPayloads :
          LET w == Wells(raw_project)
          IN IF w.raised
             THEN /\ Abort("project_normalize")
                  /\ UNCHANGED <<well_ids, wi, ai, df_pricing_all, df_summary>>
             ELSE IF ~w.found
             THEN /\ pc' = "done"
                  /\ outcome' = "nowells"
                  /\ UNCHANGED <<well_ids, wi, ai, df_pricing_all, df_summary, error_at>>
             ELSE IF w.ids = <<>>
             THEN /\ Finish(<<>>)
                  /\ UNCHANGED <<well_ids, wi, ai>>
             ELSE /\ pc' = "fetch"
                  /\ well_ids' = w.ids
                  /\ wi' = 1
                  /\ ai' = 1
                  /\ UNCHANGED <<df_pricing_all, df_summary, outcome, error_at>>
    /\ UNCHANGED <<raw, pricing_frames>>
    /\ UNCHANGED <<fvars, pvars>>

\* Mutant of FetchRaises: the failure is noted and the loop goes on with
\* the next pair, the failed pair contributing nothing.
FetchRaisesRecovered ==
    /\ pc = "fetch"
    /\ error_at' = "fetch"
    /\ IF wi = Len(well_ids) /\ ai = Len(Attributes)
       THEN LET agg == Aggregate(pricing_frames)
            IN /\ pc' = "done"
               /\ outcome' = agg.outcome
               /\ df_pricing_all' = agg.all
               /\ df_summary' = agg.summary
               /\ UNCHANGED <<wi, ai>>
       ELSE /\ wi' = IF ai = Len(Attributes) THEN wi + 1 ELSE wi
            /\ ai' = IF ai = Len(Attributes) THEN 1 ELSE ai + 1
            /\ UNCHANGED <<pc, outcome, df_pricing_all, df_summary>>
    /\ UNCHANGED <<well_ids, raw, pricing_frames>>
    /\ UNCHANGED <<fvars, pvars>>

\* Line 290: get_details raises for a (well, attribute) pair.
FetchRaises ==
    /\ pc = "fetch"
    /\ Abort("fetch")
    /\ UNCHANGED <<well_ids, wi, ai, raw, pricing_frames, df_pricing_all, df_summary>>
    /\ UNCHANGED <<fvars, pvars>>

\* Lines 290-340: get_details returns for a (well, attribute) pair; the
\* payload is flattened for display and handed to the attribute's
\* extractor; after the last pair the frames are aggregated.
FetchReturns ==
    /\ pc = "fetch"
    /\ \E payload \in Payloads(Attributes[ai]) :
          LET att == Attributes[ai]
              priced == att # "generalWellInformation"
              r == IF priced THEN parse(att, payload, ProjectNumber, well_ids[wi])
                   ELSE Returned(<<>>)
              frames == IF priced THEN Append(pricing_frames, r.rows) ELSE pricing_frames
              last == wi = Len(well_ids) /\ ai = Len(Attributes)
          IN /\ raw' = payload
             /\ IF flatten_raises(payload)
                THEN /\ Abort("flatten")
                     /\ UNCHANGED <<wi, ai, pricing_frames, df_pricing_all, df_summary>>
                ELSE IF r.raised
                THEN /\ Abort("parse")
                     /\ UNCHANGED <<wi, ai, pricing_frames, df_pricing_all, df_summary>>
                ELSE /\ TotalRows(frames) <= MaxItems
                     /\ pricing_frames' = frames
                     /\ IF last
                        THEN Finish(frames) /\ UNCHANGED <<wi, ai>>
                        ELSE /\ wi' = IF ai = Len(Attributes) THEN wi + 1 ELSE wi
                             /\ ai' = IF ai = Len(Attributes) THEN 1 ELSE ai + 1
                             /\ UNCHANGED <<pc, outcome, error_at, df_pricing_all, df_summary>>
    /\ UNCHANGED well_ids
    /\ UNCHANGED <<fvars, pvars>>

Next == TokenRaises \/ ProjectRaises \/ ProjectFetched \/ FetchRaises \/ FetchReturns

Spec == Init /\ [][Next]_vars

(***************************************************************************)
(* Properties of the project query (checked under Spec).                   *)
(***************************************************************************)
\* The number of a cell, a missing one counting as 0.
nz(v) == IF v.k = "num" THEN v.n ELSE 0

RECURSIVE SumOver(_, _)
\* The sum of F over a finite set.
SumOver(F(_), S) ==
    IF S = {} THEN 0
    ELSE LET x == CHOOSE y \in S : TRUE
         IN F(x) + SumOver(F, S \ {x})

\* The line items the extractors returned, in the order of the calls.
Extracted == Flat(pricing_frames)

\* A line item of the aggregated table without its extended totals.
Base(row) ==
    [f \in DOMAIN row \ {"extended_discounted", "extended_list"} |-> row[f]]

\* Every (well, pricing attribute) pair has been fetched and extracted.
AllExtracted == Len(pricing_frames) = 4 * Len(well_ids)

\* C1 (as stated): a fetch that raises for one (well, source) pair is
\* recovered for that pair only: the remaining pairs are still fetched and
\* extracted, and the line items already extracted appear in the final
\* line-item and summary tables.
C1_FetchFailureRecovered ==
    (pc = "done" /\ error_at = "fetch") =>
        /\ AllExtracted
        /\ [i \in DOMAIN df_pricing_all |-> Base(df_pricing_all[i])] = Extracted
        /\ Extracted # <<>> => df_summary # <<>>

\* C1 (amended): a fetch that raises for one (well, source) pair ends the
\* whole query in the error outcome: the remaining pairs are neither
\* fetched nor extracted, and no line-item or summary table is produced.
C1_FetchFailureAborts ==
    error_at = "fetch" =>
        /\ pc = "done"
        /\ outcome = "error"
        /\ ~AllExtracted
        /\ df_pricing_all = <<>>
        /\ df_summary = <<>>

\* C1 witness: a fetch raised after line items had been extracted, with
\* another well still to be processed.
C1_Witness ==
    /\ error_at = "fetch"
    /\ Extracted # <<>>
    /\ wi < Len(well_ids)

\* C2: with at least one well and every extractor output empty, the query
\* ends in the "no data" outcome, never in the error outcome.
C2_AllEmptyIsNoData ==
    (/\ pc = "done"
     /\ well_ids # <<>>
     /\ AllExtracted
     /\ \A n \in DOMAIN pricing_frames : pricing_frames[n] = <<>>)
    => outcome = "nodata"

\* The payload is one of the malformed shapes.
IsMalformed(rawv) ==
    \E att \in Range(PricingAttributes) : rawv \in Malformed(att)

\* C3: a malformed payload for one (well, source) pair never aborts the
\* query: flattening and extracting it completes without a raised error.
C3_MalformedPayloadNeverAborts ==
    IsMalformed(raw) => error_at \notin {"flatten", "parse"}

\* C7: in the aggregated table every line item returned by an extractor is
\* kept, extended_list is unit_price * quoted_quantity and
\* extended_discounted is discounted_unit_price * quoted_quantity, a
\* missing operand counting as 0.
C7_ExtendedTotals ==
    outcome = "table" =>
        /\ Len(df_pricing_all) = Len(Extracted)
        /\ \A i \in DOMAIN df_pricing_all :
              LET r == df_pricing_all[i]
                  src == Extracted[i]
              IN /\ r.extended_list = Num(nz(src.unit_price) * nz(src.quoted_quantity))
                 /\ r.extended_discounted =
                       Num(nz(src.discounted_unit_price) * nz(src.quoted_quantity))

\* C7 witness: the table holds an item of 10 * 5 = 50 and an item without
\* list price whose extended_list is 0.
C7_Witness ==
    /\ outcome = "table"
    /\ \E i \in DOMAIN df_pricing_all :
          /\ df_pricing_all[i].unit_price = Null
          /\ df_pricing_all[i].quoted_quantity = Num(3)
          /\ df_pricing_all[i].extended_list = Num(0)
          /\ df_pricing_all[i].extended_discounted = Num(6)
    /\ \E i \in DOMAIN df_pricing_all : df_pricing_all[i].extended_list = Num(50)

\* C8: the summary has exactly one record per (well_id, line_type) pair
\* among the line items and no other; its lines, total_qty,
\* total_discounted and total_list are the count and the sums over the line
\* items of the pair; the lines of all records add up to the number of
\* line items.
C8_SummaryPerWellAndLineType ==
    outcome = "table" =>
        LET rows == df_pricing_all
            Of(key) == {i \in DOMAIN rows : rows[i].well_id = key[1] /\ rows[i].line_type = key[2]}
            KeyOf(rec) == <<rec.well_id, rec.line_type>>
        IN /\ \A i \in DOMAIN rows :
                 Cardinality({n \in DOMAIN df_summary :
                                KeyOf(df_summary[n]) = <<rows[i].well_id, rows[i].line_type>>}) = 1
           /\ \A n \in DOMAIN df_summary :
                 LET rec == df_summary[n]
                     members == Of(KeyOf(rec))
                 IN /\ members # {}
                    /\ rec.lines = Cardinality(members)
                    /\ rec.total_qty = SumOver(LAMBDA i : nz(rows[i].quoted_quantity), members)
                    /\ rec.total_discounted =
                          SumOver(LAMBDA i : nz(rows[i].extended_discounted), members)
                    /\ rec.total_list = SumOver(LAMBDA i : nz(rows[i].extended_list), members)
           /\ SumOver(LAMBDA n : df_summary[n].lines, DOMAIN df_summary) = Len(rows)

\* C8 witness: two line items of one well and line type, quantities 5 and
\* 3, summed in one record.
C8_Witness ==
    /\ outcome = "table"
    /\ \E n \in DOMAIN df_summary :
          /\ df_summary[n].lines = 2
          /\ df_summary[n].total_qty = 8
          /\ df_summary[n].total_list = 50
          /\ df_summary[n].total_discounted = 16

\* The payload in raw is the one the last frame was extracted from.
LastFrameFromRaw ==
    /\ pricing_frames # <<>>
    /\ error_at \in {"none", "concat"}
    /\ ~(pc = "fetch" /\ ai = 2)

\* C9: the aggregated table holds every line item of every extractor call
\* exactly once: wells in enumeration order, within a well the sources in
\* the order completionDesign, fracChemicals, cartageCharges,
\* serviceCharges, within a source the elements in payload order; empty
\* outputs contribute nothing.
C9_ConcatenationOrder ==
    /\ outcome = "table" =>
          [i \in DOMAIN df_pricing_all |-> Base(df_pricing_all[i])] = Extracted
    /\ \A n \in DOMAIN pricing_frames : \A j \in DOMAIN pricing_frames[n] :
          /\ pricing_frames[n][j].source_attribute = PricingAttributes[((n - 1) % 4) + 1]
          /\ pricing_frames[n][j].well_id = str(well_ids[((n - 1) \div 4) + 1])
    /\ LastFrameFromRaw =>
          LET n == Len(pricing_frames)
              src == SourceItems(PricingAttributes[((n - 1) % 4) + 1], raw)
          IN /\ Len(pricing_frames[n]) = Len(src)
             /\ \A j \in DOMAIN src :
                   /\ pricing_frames[n][j].unit_price = _f(get(src[j], "unitPrice"))
                   /\ pricing_frames[n][j].quoted_quantity = _f(get(src[j], "quotedQuantity"))

\* C9 witness: a table of two line items of two wells, the first well's
\* first, with empty outputs in between.
C9_Witness ==
    /\ outcome = "table"
    /\ Len(well_ids) = 2
    /\ Len(df_pricing_all) = 2
    /\ df_pricing_all[1].well_id = str(well_ids[1])
    /\ df_pricing_all[2].well_id = str(well_ids[2])
    /\ df_pricing_all[1] # df_pricing_all[2]

====
